---- MODULE Spec2Model ----
(***************************************************************************)
(* A model of the BASIC interpreter engine (class BasicInterpreter) and of *)
(* the way EmulatorWindow drives it.                                       *)
(*                                                                         *)
(* Source text is represented by its parse: a statement is a record whose  *)
(* field op is the keyword the interpreter's regular expressions extract,  *)
(* an expression is a record whose field k is its syntactic form.  The     *)
(* interpreter state is one record, `state`, with the fields of            *)
(* InterpreterState.  A handler is an operator from a world                *)
(* [st, ls, exc] (interpreter state, localStorage, exception in flight)    *)
(* to a world; exc = "" means the handler returned normally.               *)
(***************************************************************************)
EXTENDS Integers, Sequences, FiniteSets, TLC

VARIABLES
    state,         \* BasicInterpreter.state (InterpreterState)
    localStorage,  \* the browser's localStorage: key -> stored string
    call,          \* "idle": no engine call is active; "run": inside executeRun's loop
    thrown,        \* message of the exception the last public call let escape ("" if none)
    lastCall,      \* history: the last public call, [fn, line, value]
    trace,         \* history: the statements executed since the last cold start
    runProgram,    \* history: the Program Store at the last cold start
    suspendedAt,   \* history: line of the INPUT the run was suspended at when the
                   \*          last value was supplied (NoLine once a statement ran)
    steps,         \* history: loop iterations of executeRun since the last cold start
    edits,         \* history: line number -> remainder of the last numbered line
                   \*          submitted for it outside AUTO mode (Blank: empty)
    auto,          \* history: the arguments of the last AUTO accepted and the
                   \*          non-blank lines submitted in AUTO mode since, [parts, lines]
    saved,         \* history: file name (case-folded) -> the Program Store at the last
                   \*          SAVE under it, or that a KILL has removed it since,
                   \*          [kept, program]
    firstRun       \* history, kept where `on`: the first run that was started cold by
                   \*          processLine and ended with no value supplied,
                   \*          [on, done, program, output]

vars == <<state, localStorage, call, thrown, lastCall, trace, runProgram, suspendedAt,
          steps, edits, auto, saved, firstRun>>

\* ------------------------------------------------------------------ bounds

\* Loop iterations of executeRun explored per run.
MaxSteps == 14

\* ------------------------------------------------------- program constants

HALT == -1           \* handleEnd / findNextLine: the sentinel that stops the loop
AutoDefault == 10    \* getInitialState / handleAuto: default start and increment

MemorySize == 65536  \* getInitialState: new Uint8Array(65536)

NoError == ""        \* state.error === null (every message is non-empty)
NoLine == 0 - 2      \* history only: no line

\* ------------------------------------------------------------------ values

NumV(n) == [t |-> "num", n |-> n]
StrV(x) == [t |-> "str", s |-> x]
HalfV(n) == [t |-> "half", n |-> n]      \* the number n + 1/2 (an ON index only)
Undefined == [t |-> "undefined"]
NaN == [t |-> "NaN"]

\* JavaScript String(v) for the values above; numbers print in decimal.
String(v) ==
    CASE v.t = "num" -> ToString(v.n)
      [] v.t = "str" -> v.s
      [] v.t = "half" -> IF v.n >= 0 THEN ToString(v.n) \o ".5"
                         ELSE "-" \o ToString(0 - v.n - 1) \o ".5"
      [] v.t = "undefined" -> "undefined"
      [] OTHER -> "NaN"

\* JavaScript + on two values (numeric addition; string operands concatenate).
JsAdd(a, b) ==
    CASE a.t = "num" /\ b.t = "num" -> NumV(a.n + b.n)
      [] a.t = "half" /\ b.t = "num" -> HalfV(a.n + b.n)
      [] a.t = "num" /\ b.t = "half" -> HalfV(a.n + b.n)
      [] a.t = "half" /\ b.t = "half" -> NumV(a.n + b.n + 1)
      [] a.t = "str" \/ b.t = "str" -> StrV(String(a) \o String(b))
      [] OTHER -> NaN

\* JavaScript `v || 0` read as a number (handleNext).
OrZero(v) == IF v.t = "num" THEN v.n ELSE 0

\* ------------------------------------------------------------- expressions

Num(n) == [k |-> "num", n |-> n]               \* numeric literal
Lit(x) == [k |-> "str", s |-> x]               \* "..." string literal
Var(v) == [k |-> "var", v |-> v]               \* variable reference
Add(l, r) == [k |-> "add", l |-> l, r |-> r]   \* l + r
Arr(a, i) == [k |-> "arr", a |-> a, i |-> i]   \* NAME(expr): array element
Half(n) == [k |-> "half", n |-> n]             \* the literal n.5
Peek(a) == [k |-> "peek", addr |-> a]            \* PEEK(expr)

\* A value with the exception its evaluation raised, if any.
Val(v) == [val |-> v, exc |-> ""]
Raise(m) == [val |-> Undefined, exc |-> m]

\* resolveFunctionsAndArrays, array branch: walk one axis with index v.
\* A JavaScript array read outside its indices yields undefined; no error.
ArrayRead(arr, v) ==
    IF v.t = "num" /\ v.n \in DOMAIN arr THEN arr[v.n] ELSE Undefined

\* The sum of two evaluated operands; an exception in either propagates.
Sum(l, r) ==
    IF l.exc # "" THEN l
    ELSE IF r.exc # "" THEN r
    ELSE Val(JsAdd(l.val, r.val))

\* resolveFunctionsAndArrays on NAME(i), the index i evaluated.
Element(st, name, i) ==
    IF i.exc # "" THEN i
    ELSE IF name \in DOMAIN st.arrays THEN Val(ArrayRead(st.arrays[name], i.val))
    ELSE Raise("?UNDEF'D FUNCTION OR ARRAY: " \o name)

\* this.state.memory[a]: the byte last written at a, 0 if none was; an index
\* that is no element of the Uint8Array reads as undefined.
InMemory(v) == v.t = "num" /\ v.n >= 0 /\ v.n < MemorySize

MemoryRead(memory, v) ==
    IF ~InMemory(v) THEN Undefined
    ELSE IF v.n \in DOMAIN memory THEN NumV(memory[v.n])
    ELSE NumV(0)

\* executeBuiltInFunction on PEEK, the address a evaluated.
executeBuiltInFunction(st, a) ==
    IF a.exc # "" THEN a ELSE Val(MemoryRead(st.memory, a.val))

\* The substitution of a variable by its value: a variable that is not set, or
\* holds undefined, reads as 0; the text NaN is no expression.
Substitute(st, v) ==
    IF v \notin DOMAIN st.variables \/ st.variables[v] = Undefined THEN Val(NumV(0))
    ELSE IF st.variables[v] = NaN THEN Raise("?SYNTAX ERROR IN EXPRESSION: " \o v)
    ELSE Val(st.variables[v])

RECURSIVE evaluateExpression(_, _)
evaluateExpression(st, e) ==
    CASE e.k = "num" -> Val(NumV(e.n))
      [] e.k = "str" -> Val(StrV(e.s))
      [] e.k = "half" -> Val(HalfV(e.n))
      [] e.k = "var" -> Substitute(st, e.v)
      [] e.k = "add" -> Sum(evaluateExpression(st, e.l), evaluateExpression(st, e.r))
      [] e.k = "peek" -> executeBuiltInFunction(st, evaluateExpression(st, e.addr))
      [] OTHER -> Element(st, e.a, evaluateExpression(st, e.i))

\* -------------------------------------------------------------- statements
\* The text of a line, by the form the interpreter's patterns recognise.

StPrint(e) == [op |-> "PRINT", e |-> e]                 \* PRINT <expr>
StLet(t, e) == [op |-> "LET", t |-> t, e |-> e]         \* LET <var | NAME(i)> = <expr>
StInput(v) == [op |-> "INPUT", v |-> v]                 \* INPUT <name>
StGoto(e) == [op |-> "GOTO", e |-> e]                   \* GOTO <expr>
StGosub(e) == [op |-> "GOSUB", e |-> e]                 \* GOSUB <expr>
StReturn == [op |-> "RETURN"]
StEnd == [op |-> "END"]
StRem == [op |-> "REM"]
StIf(l, c, r, th) == [op |-> "IF", l |-> l, cmp |-> c, r |-> r, th |-> th]
StLineNo(n) == [op |-> "LINENO", n |-> n]               \* a bare number after THEN
StFor(v, a, b, s) == [op |-> "FOR", v |-> v, from |-> a, to |-> b, step |-> s]
StForNoStep(v, a, b) == [op |-> "FOR", v |-> v, from |-> a, to |-> b]
StNext(v) == [op |-> "NEXT", v |-> v]                   \* NEXT [<name>] ("" if none)
StPoke(a, v) == [op |-> "POKE", addr |-> a, val |-> v]     \* POKE <expr>,<expr>
StOn(e, kind, lines) ==                                 \* ON <expr> GOTO|GOSUB n,...
    [op |-> "ON", e |-> e, kind |-> kind, lines |-> lines]
StDim(a, n) == [op |-> "DIM", a |-> a, n |-> n]         \* DIM NAME(<expr>)
StRead(vs) == [op |-> "READ", vs |-> vs]                \* READ <name>,...
StData(items) == [op |-> "DATA", items |-> items]       \* DATA <item>,...
StRestore == [op |-> "RESTORE"]
StSave(a) == [op |-> "SAVE", arg |-> a]
StLoad(a) == [op |-> "LOAD", arg |-> a]
StKill(a) == [op |-> "KILL", arg |-> a]
StAuto(parts) == [op |-> "AUTO", parts |-> parts]       \* AUTO [p1[,p2]], parts as typed
StRun(a) == [op |-> "RUN", arg |-> a]
StList == [op |-> "LIST"]
StNew == [op |-> "NEW"]
StCls == [op |-> "CLS"]
Numbered(n, code) == [op |-> "#", n |-> n, code |-> code]  \* <digits> <rest>
Blank == [op |-> ""]                                    \* nothing but white space

\* The argument of SAVE, LOAD, KILL and RUN as typed: "name" in quotes, a bare
\* word, or nothing.
Quoted(x) == [quoted |-> TRUE, name |-> x]
Bare(x) == [quoted |-> FALSE, name |-> x]
NoArg == Bare("")

\* String.prototype.toUpperCase on the names and words the model types.
toUpperCase(x) ==
    CASE x = "a" -> "A"
      [] x = "b" -> "B"
      [] x = "x" -> "X"
      [] OTHER -> x

\* parseFloat on the raw values the model types; NaN when no number starts the text.
parseFloat(x) ==
    CASE x = "0" -> NumV(0)
      [] x = "5" -> NumV(5)
      [] x = "7" -> NumV(7)
      [] x = "-3" -> NumV(0 - 3)
      [] OTHER -> NaN

\* parseInt(x, 10) on the AUTO arguments the model types.
parseInt(x) ==
    CASE x = "0" -> NumV(0)
      [] x = "5" -> NumV(5)
      [] x = "20" -> NumV(20)
      [] x = "-5" -> NumV(0 - 5)
      [] OTHER -> NaN

\* varName.endsWith('$')
EndsWithDollar(x) == Len(x) > 0 /\ SubSeq(x, Len(x), Len(x)) = "$"

\* code.includes('=')
IncludesEq(code) ==
    CASE code.op \in {"LET", "FOR"} -> TRUE
      [] code.op = "IF" -> code.cmp \in {"=", "<=", ">="}
      [] code.op = "#" -> code.code.op \in {"LET", "FOR"}
      [] OTHER -> FALSE

\* ------------------------------------------------------------------ worlds

World(st, ls) == [st |-> st, ls |-> ls, exc |-> ""]
Throw(w, m) == [w EXCEPT !.exc = m]

\* output.push(x)
Push(w, x) == [w EXCEPT !.st.output = Append(@, x)]

\* output[output.length - 1] += x, after `if (output.length === 0) output.push('')`
AppendToLastLine(w, x) ==
    LET out == IF w.st.output = <<>> THEN <<"">> ELSE w.st.output
    IN  [w EXCEPT !.st.output = [out EXCEPT ![Len(out)] = @ \o x]]

\* ----------------------------------------------------------- program store

\* Map.prototype.set / delete on a Map held as a function.
MapSet(m, key, v) == (key :> v) @@ m
MapDelete(m, key) == [x \in DOMAIN m \ {key} |-> m[x]]

SortedKeysDescending(S) ==
    [i \in 1..Cardinality(S) |-> CHOOSE x \in S : Cardinality({y \in S : y > x}) = i - 1]

\* Array.from(keys).sort((a, b) => a - b)
RECURSIVE SortedKeys(_)
SortedKeys(S) ==
    IF S = {} THEN <<>>
    ELSE LET lo == CHOOSE x \in S : \A y \in S : x <= y
         IN  <<lo>> \o SortedKeys(S \ {lo})

findNextLine(program, currentLine) ==
    LET later == {ln \in DOMAIN program : ln > currentLine}
    IN  IF later = {} THEN HALT
        ELSE CHOOSE ln \in later : \A other \in later : ln <= other

\* ---------------------------------------------------------------- handlers

getInitialState ==
    [ program |-> <<>>, variables |-> <<>>, arrays |-> <<>>, output |-> <<>>,
      pc |-> 0, isRunning |-> FALSE, isWaitingForInput |-> FALSE,
      inputVariable |-> "", loopStack |-> <<>>, gosubStack |-> <<>>,
      error |-> NoError, printCursor |-> 0, data |-> <<>>, dataPointer |-> 0,
      memory |-> <<>>, isAutoMode |-> FALSE,
      autoLineNumber |-> AutoDefault, autoIncrement |-> AutoDefault ]

\* handlePrint, the expression evaluated to v.
PrintValue(w, v) ==
    IF v.exc # "" THEN Throw(w, v.exc)
    ELSE Push(AppendToLastLine(w, String(v.val)), "")

handlePrint(w, code) == PrintValue(w, evaluateExpression(w.st, code.e))

\* handleLet on NAME(i) = value: current[indices[last]] = value.  A JavaScript
\* array takes a write at any index; no error.
SetElement(w, name, i, value) ==
    IF i.exc # "" THEN Throw(w, i.exc)
    ELSE IF i.val.t # "num" THEN w
    ELSE [w EXCEPT !.st.arrays[name] = MapSet(@, i.val.n, value)]

\* handleLet, the right-hand side evaluated to v.
Assign(w, target, v) ==
    IF v.exc # "" THEN Throw(w, v.exc)
    ELSE IF target.k = "arr"
    THEN IF target.a \notin DOMAIN w.st.arrays THEN Throw(w, "?UNDEF'D ARRAY")
         ELSE SetElement(w, target.a, evaluateExpression(w.st, target.i), v.val)
    ELSE [w EXCEPT !.st.variables = MapSet(@, target.v, v.val)]

handleLet(w, code) == Assign(w, code.t, evaluateExpression(w.st, code.e))

handleInput(w, code) ==
    LET w1 == AppendToLastLine(w, "? ")
    IN  [w1 EXCEPT !.st.isWaitingForInput = TRUE,
                   !.st.inputVariable = toUpperCase(code.v)]

\* lineNumbers[lineNumbers.indexOf(lineNumber) - 1] || 0
LineBefore(program, lineNumber) ==
    LET before == {ln \in DOMAIN program : ln < lineNumber}
    IN  IF before = {} THEN 0
        ELSE CHOOSE ln \in before : \A other \in before : other <= ln

\* handleGoto as it would be without the test for a missing line.
JumpUnchecked(w, v) ==
    IF v.exc # "" THEN Throw(w, v.exc)
    ELSE [w EXCEPT !.st.pc = LineBefore(w.st.program, v.val.n)]

\* handleGoto, the target evaluated to v.
Jump(w, v) ==
    IF v.exc # "" THEN Throw(w, v.exc)
    ELSE IF v.val.t # "num" \/ v.val.n \notin DOMAIN w.st.program
    THEN Throw(w, "?LINE NOT FOUND: " \o String(v.val))
    ELSE [w EXCEPT !.st.pc = LineBefore(w.st.program, v.val.n)]

handleGoto(w, e) == Jump(w, evaluateExpression(w.st, e))

handleGosub(w, e) ==
    handleGoto([w EXCEPT !.st.gosubStack = Append(@, w.st.pc)], e)

\* Math.floor for Math.round.
MathFloor(v) ==
    CASE v.t = "num" -> v
      [] v.t = "half" -> NumV(v.n)
      [] v.t = "str" -> parseFloat(v.s)
      [] OTHER -> NaN

\* Math.round: halves go up; a text is read as a number first; what is no
\* number gives NaN.
MathRound(v) ==
    CASE v.t = "num" -> v
      [] v.t = "half" -> NumV(v.n + 1)
      [] v.t = "str" -> parseFloat(v.s)
      [] OTHER -> NaN

\* handleOn, the index rounded; NaN compares false and selects nothing.
Dispatched(w, code, index) ==
    IF index.t = "num" /\ index.n > 0 /\ index.n <= Len(code.lines)
    THEN IF code.kind = "GOSUB" THEN handleGosub(w, Num(code.lines[index.n]))
         ELSE handleGoto(w, Num(code.lines[index.n]))
    ELSE w

\* handleOn, the index expression evaluated.
Select(w, code, index) ==
    IF index.exc # "" THEN Throw(w, index.exc)
    ELSE Dispatched(w, code, MathRound(index.val))

handleOn(w, code) == Select(w, code, evaluateExpression(w.st, code.e))

\* handleReturn as it would be taking the oldest call site (shift for pop).
handleReturnOldest(w) ==
    IF w.st.gosubStack = <<>> THEN Throw(w, "?RETURN WITHOUT GOSUB")
    ELSE [w EXCEPT !.st.pc = w.st.gosubStack[1],
                   !.st.gosubStack = Tail(@)]

handleReturn(w) ==
    IF w.st.gosubStack = <<>> THEN Throw(w, "?RETURN WITHOUT GOSUB")
    ELSE LET n == Len(w.st.gosubStack)
         IN  [w EXCEPT !.st.pc = w.st.gosubStack[n],
                       !.st.gosubStack = SubSeq(@, 1, n - 1)]

handleEnd(w) == [w EXCEPT !.st.isRunning = FALSE, !.st.pc = HALT]

\* The comparison handleIf makes, on numbers; a NaN or undefined operand makes
\* every comparison but <> false.
Compare(l, c, r) ==
    IF l.t = "num" /\ r.t = "num"
    THEN CASE c = "=" -> l.n = r.n
           [] c = "<>" -> l.n # r.n
           [] c = "<" -> l.n < r.n
           [] c = ">" -> l.n > r.n
           [] c = "<=" -> l.n <= r.n
           [] OTHER -> l.n >= r.n
    ELSE IF l.t = "str" /\ r.t = "str"
    THEN CASE c \in {"=", "<=", ">="} -> l.s = r.s
           [] c = "<>" -> l.s # r.s
           [] OTHER -> FALSE
    ELSE c = "<>"

\* handleFor, start, end and step evaluated to a, b and s.
PushLoop(w, varName, a, b, s) ==
    IF a.exc # "" THEN Throw(w, a.exc)
    ELSE IF b.exc # "" THEN Throw(w, b.exc)
    ELSE IF s.exc # "" THEN Throw(w, s.exc)
    ELSE [w EXCEPT !.st.variables = MapSet(@, varName, a.val),
                   !.st.loopStack = Append(@, [variable |-> varName, end |-> b.val,
                                               step |-> s.val, pc |-> w.st.pc])]

handleFor(w, code) ==
    PushLoop(w, toUpperCase(code.v),
             evaluateExpression(w.st, code.from),
             evaluateExpression(w.st, code.to),
             IF "step" \in DOMAIN code THEN evaluateExpression(w.st, code.step)
             ELSE Val(NumV(1)))

\* loopStack.findIndex(l => l.variable === varName), 1-based; 0 when there is none.
FindLoop(stack, varName) ==
    LET hits == {i \in 1..Len(stack) : stack[i].variable = varName}
    IN  IF hits = {} THEN 0 ELSE CHOOSE i \in hits : \A j \in hits : i <= j

\* isDone as it would be with >= and <= for > and <.
IsDoneAtEnd(next, loop) ==
    IF loop.step.t = "num" /\ loop.step.n > 0
    THEN next.t = "num" /\ loop.end.t = "num" /\ next.n >= loop.end.n
    ELSE next.t = "num" /\ loop.end.t = "num" /\ next.n <= loop.end.n

\* handleNext's isDone: (step > 0) ? next > end : next < end
IsDone(next, loop) ==
    IF loop.step.t = "num" /\ loop.step.n > 0
    THEN next.t = "num" /\ loop.end.t = "num" /\ next.n > loop.end.n
    ELSE next.t = "num" /\ loop.end.t = "num" /\ next.n < loop.end.n

\* handleNext as it would be taking the innermost loop whatever the name.
handleNextInnermost(w, code) ==
    LET stack == w.st.loopStack
        n == Len(stack)
    IN  IF n = 0 THEN Throw(w, "?NEXT WITHOUT FOR")
        ELSE LET loop == stack[n]
                 cur == IF loop.variable \in DOMAIN w.st.variables
                        THEN OrZero(w.st.variables[loop.variable]) ELSE 0
                 next == JsAdd(NumV(cur), loop.step)
             IN  IF ~IsDone(next, loop)
                 THEN [w EXCEPT !.st.variables = MapSet(@, loop.variable, next),
                                !.st.pc = loop.pc]
                 ELSE [w EXCEPT !.st.loopStack = SubSeq(stack, 1, n - 1)]

handleNext(w, code) ==
    LET varName == toUpperCase(code.v)
        stack == w.st.loopStack
        n == Len(stack)
    IN  IF n = 0 THEN Throw(w, "?NEXT WITHOUT FOR")
        ELSE LET named == varName # "" /\ varName # stack[n].variable
                 idx == IF named THEN FindLoop(stack, varName) ELSE n
             IN  IF idx = 0 THEN Throw(w, "?NEXT WITHOUT FOR FOR " \o varName)
                 ELSE LET kept == SubSeq(stack, 1, idx)
                          loop == kept[idx]
                          cur == IF loop.variable \in DOMAIN w.st.variables
                                 THEN OrZero(w.st.variables[loop.variable]) ELSE 0
                          next == JsAdd(NumV(cur), loop.step)
                      IN  IF ~IsDone(next, loop)
                          THEN [w EXCEPT !.st.loopStack = kept,
                                         !.st.variables = MapSet(@, loop.variable, next),
                                         !.st.pc = loop.pc]
                          ELSE [w EXCEPT !.st.loopStack = SubSeq(kept, 1, idx - 1)]

\* createArray for one axis: indices 0..size-1, each 0 ('' for a name ending in $).
createArray(varName, size) ==
    [i \in 0..(size - 1) |-> IF EndsWithDollar(varName) THEN StrV("") ELSE NumV(0)]

\* handleDim, the size evaluated to n.
Declare(w, varName, n) ==
    IF n.exc # "" THEN Throw(w, n.exc)
    ELSE [w EXCEPT !.st.arrays =
             MapSet(@, toUpperCase(varName),
                    IF n.val.t = "num" THEN createArray(varName, n.val.n + 1) ELSE <<>>)]

handleDim(w, code) == Declare(w, code.a, evaluateExpression(w.st, code.n))

RECURSIVE handleRead(_, _)
handleRead(w, varNames) ==
    IF varNames = <<>> THEN w
    ELSE IF w.st.dataPointer >= Len(w.st.data) THEN Throw(w, "?OUT OF DATA ERROR")
    ELSE handleRead(
            [w EXCEPT !.st.variables =
                          MapSet(@, toUpperCase(Head(varNames)), w.st.data[w.st.dataPointer + 1]),
                      !.st.dataPointer = @ + 1],
            Tail(varNames))

\* The value as it is, for value & 0xFF.
ByteUnmasked(v) ==
    IF v.t = "num" THEN v.n
    ELSE IF v.t = "str" /\ parseFloat(v.s) # NaN THEN parseFloat(v.s).n
    ELSE 0

\* value & 0xFF (a fraction is dropped first, toward zero)
Byte(v) ==
    IF v.t = "num" THEN v.n % 256
    ELSE IF v.t = "half" THEN (IF v.n >= 0 THEN v.n ELSE v.n + 1) % 256
    ELSE IF v.t = "str" /\ parseFloat(v.s) # NaN THEN parseFloat(v.s).n % 256
    ELSE 0

\* handlePoke, address and value evaluated; an address that is no number
\* passes both comparisons and names no element, so nothing is written.
Write(w, address, value) ==
    IF address.exc # "" THEN Throw(w, address.exc)
    ELSE IF value.exc # "" THEN Throw(w, value.exc)
    ELSE IF address.val.t \in {"num", "half"}
            /\ (address.val.n < 0 \/ address.val.n >= MemorySize)
    THEN Throw(w, "?ILLEGAL QUANTITY ERROR")
    ELSE IF address.val.t = "num"
    THEN [w EXCEPT !.st.memory = MapSet(@, address.val.n, Byte(value.val))]
    ELSE w

handlePoke(w, code) ==
    Write(w, evaluateExpression(w.st, code.addr), evaluateExpression(w.st, code.val))

\* handleRestore as it would be leaving the pointer where it is.
handleRestoreNothing(w) == w

handleRestore(w) == [w EXCEPT !.st.dataPointer = 0]

\* ---------------------------------------------------------- file operations

\* A stored string, by what JSON.parse and new Map make of it:
\*   "pairs"   an array of [line number, text] pairs (what handleSave writes)
\*   "scalars" an array whose items are not pairs, such as [1]
\*   "object"  valid JSON that is no array, such as {}
\*   "garbage" not JSON
Stored(kind, items) == [kind |-> kind, items |-> items]

\* JSON.stringify(Array.from(program.entries()))
stringify(program) ==
    LET keys == SortedKeys(DOMAIN program)
    IN  Stored("pairs", [i \in 1..Len(keys) |-> <<keys[i], program[keys[i]]>>])

\* new Map(programArray) on an array of pairs: a later pair replaces an earlier one.
RECURSIVE MapOf(_)
MapOf(items) ==
    IF items = <<>> THEN <<>>
    ELSE LET n == Len(items)
         IN  MapSet(MapOf(SubSeq(items, 1, n - 1)), items[n][1], items[n][2])

\* parseFilename as it would be without toUpperCase.
parseFilenameAsTyped(arg) ==
    IF arg.quoted /\ arg.name # "" THEN Val(arg.name)
    ELSE Raise("?BAD FILE NAME")

parseFilename(arg) ==
    IF arg.quoted /\ arg.name # "" THEN Val(toUpperCase(arg.name))
    ELSE Raise("?BAD FILE NAME")

getLocalStorageKey(filename) == "msbasic_" \o filename

\* new as it would be resetting everything but the program.
newKeepsProgram(w) ==
    [w EXCEPT !.st = [getInitialState EXCEPT !.output = <<"Ready">>,
                                             !.program = w.st.program]]

new(w) == [w EXCEPT !.st = [getInitialState EXCEPT !.output = <<"Ready">>]]

cls(w) == [w EXCEPT !.st.output = <<>>]

handleSave(w, arg) ==
    LET f == parseFilename(arg)
    IN  IF f.exc # "" THEN Throw(w, f.exc)
        ELSE Push([w EXCEPT !.ls = MapSet(@, getLocalStorageKey(f.val),
                                          stringify(w.st.program))],
                  "Ready")

handleLoad(w, arg) ==
    LET f == parseFilename(arg)
        key == getLocalStorageKey(f.val)
    IN  IF f.exc # "" THEN Throw(w, f.exc)
        ELSE IF key \notin DOMAIN w.ls THEN Throw(w, "?FILE NOT FOUND")
        ELSE IF w.ls[key].kind \in {"garbage", "object"} THEN Throw(w, "?FILE LOAD ERROR")
        ELSE IF w.ls[key].kind = "scalars"
        THEN Throw(new(w), "Iterator value 1 is not an entry object")
        ELSE [new(w) EXCEPT !.st.program = MapOf(w.ls[key].items)]

handleKill(w, arg) ==
    LET f == parseFilename(arg)
        key == getLocalStorageKey(f.val)
    IN  IF f.exc # "" THEN Throw(w, f.exc)
        ELSE IF key \notin DOMAIN w.ls THEN Throw(w, "?FILE NOT FOUND")
        ELSE Push([w EXCEPT !.ls = MapDelete(@, key)], "Ready")

\* `p || 10` on a parsed AUTO argument (absent: undefined).
OrDefault(parts, i) ==
    IF i <= Len(parts) /\ parseInt(parts[i]).n # 0 THEN parseInt(parts[i]).n
    ELSE AutoDefault

handleAutoFromOne(w, parts) ==
    IF \E i \in 1..Len(parts) : parseInt(parts[i]) = NaN THEN Throw(w, "?SYNTAX ERROR")
    ELSE [w EXCEPT !.st.isAutoMode = TRUE,
                   !.st.autoLineNumber = 1,
                   !.st.autoIncrement = OrDefault(parts, 2)]

handleAuto(w, parts) ==
    IF \E i \in 1..Len(parts) : parseInt(parts[i]) = NaN THEN Throw(w, "?SYNTAX ERROR")
    ELSE [w EXCEPT !.st.isAutoMode = TRUE,
                   !.st.autoLineNumber = OrDefault(parts, 1),
                   !.st.autoIncrement = OrDefault(parts, 2)]

\* One DATA item as preScanForData reads it: a quoted string, a number, or the
\* bare word itself.
DataValue(item) == IF item.k = "num" THEN NumV(item.n) ELSE StrV(item.s)

RECURSIVE DataOf(_, _)
DataOf(program, lines) ==
    IF lines = <<>> THEN <<>>
    ELSE LET code == program[Head(lines)]
             here == IF code.op = "DATA"
                     THEN [i \in 1..Len(code.items) |-> DataValue(code.items[i])]
                     ELSE <<>>
         IN  here \o DataOf(program, Tail(lines))

preScanForData(w) ==
    [w EXCEPT !.st.data = DataOf(w.st.program, SortedKeys(DOMAIN w.st.program))]

printError(w, message) == Push(Push(Push(w, message), ""), "Ready")

\* The characters of an expression and of a line, as typed.
RECURSIVE ShowExpr(_)
ShowExpr(e) ==
    CASE e.k = "num" -> ToString(e.n)
      [] e.k = "str" -> "\"" \o e.s \o "\""
      [] e.k = "half" -> String(HalfV(e.n))
      [] e.k = "var" -> e.v
      [] e.k = "add" -> ShowExpr(e.l) \o "+" \o ShowExpr(e.r)
      [] e.k = "peek" -> "PEEK(" \o ShowExpr(e.addr) \o ")"
      [] OTHER -> e.a \o "(" \o ShowExpr(e.i) \o ")"

RECURSIVE ShowList(_)
ShowList(xs) ==
    IF xs = <<>> THEN ""
    ELSE IF Len(xs) = 1 THEN xs[1]
    ELSE xs[1] \o "," \o ShowList(Tail(xs))

ShowArg(a) == IF a.quoted THEN "\"" \o a.name \o "\"" ELSE a.name

RECURSIVE Show(_)
Show(code) ==
    CASE code.op = "PRINT" -> "PRINT " \o ShowExpr(code.e)
      [] code.op = "LET" -> "LET " \o ShowExpr(code.t) \o "=" \o ShowExpr(code.e)
      [] code.op = "INPUT" -> IF code.v = "" THEN "INPUT" ELSE "INPUT " \o code.v
      [] code.op \in {"GOTO", "GOSUB"} -> code.op \o " " \o ShowExpr(code.e)
      [] code.op = "IF" -> "IF " \o ShowExpr(code.l) \o code.cmp \o ShowExpr(code.r)
                            \o " THEN " \o Show(code.th)
      [] code.op = "LINENO" -> ToString(code.n)
      [] code.op = "FOR" -> "FOR " \o code.v \o "=" \o ShowExpr(code.from) \o " TO "
                             \o ShowExpr(code.to)
                             \o (IF "step" \in DOMAIN code
                                 THEN " STEP " \o ShowExpr(code.step) ELSE "")
      [] code.op = "NEXT" -> IF code.v = "" THEN "NEXT" ELSE "NEXT " \o code.v
      [] code.op = "ON" -> "ON " \o ShowExpr(code.e) \o " " \o code.kind \o " "
                            \o ShowList([i \in 1..Len(code.lines) |-> ToString(code.lines[i])])
      [] code.op = "POKE" -> "POKE " \o ShowExpr(code.addr) \o "," \o ShowExpr(code.val)
      [] code.op = "DIM" -> "DIM " \o code.a \o "(" \o ShowExpr(code.n) \o ")"
      [] code.op = "READ" -> "READ " \o ShowList(code.vs)
      [] code.op = "DATA" ->
            "DATA " \o ShowList([i \in 1..Len(code.items) |-> ShowExpr(code.items[i])])
      [] code.op \in {"SAVE", "LOAD", "KILL", "RUN"} ->
            IF code.arg = NoArg THEN code.op ELSE code.op \o " " \o ShowArg(code.arg)
      [] code.op = "AUTO" ->
            IF code.parts = <<>> THEN "AUTO" ELSE "AUTO " \o ShowList(code.parts)
      [] code.op = "#" -> ToString(code.n) \o " " \o Show(code.code)
      [] OTHER -> code.op

list(w) ==
    LET keys == SortedKeys(DOMAIN w.st.program)
        lines == [i \in 1..Len(keys) |->
                     ToString(keys[i]) \o " " \o Show(w.st.program[keys[i]])]
    IN  Push([w EXCEPT !.st.output =
                 @ \o lines \o (IF Len(keys) > 0 THEN <<"">> ELSE <<>>)],
             "Ready")

\* ------------------------------------------------------- statement executor

RECURSIVE parseAndExecute(_, _)

\* handleIf: a bare line number after THEN stands for GOTO.
Statement(th) == IF th.op = "LINENO" THEN StGoto(Num(th.n)) ELSE th

\* handleIf, the two sides evaluated to left and right.
Branch(w, code, left, right) ==
    IF left.exc # "" THEN Throw(w, left.exc)
    ELSE IF right.exc # "" THEN Throw(w, right.exc)
    ELSE IF Compare(left.val, code.cmp, right.val)
    THEN parseAndExecute(w, Statement(code.th))
    ELSE w

handleIf(w, code) ==
    Branch(w, code, evaluateExpression(w.st, code.l), evaluateExpression(w.st, code.r))

\* The switch of parseAndExecute, inside its try block.
Dispatch(w, code) ==
    CASE code.op = "PRINT" -> handlePrint(w, code)
      [] code.op = "LET" -> handleLet(w, code)
      [] code.op = "INPUT" -> handleInput(w, code)
      [] code.op = "GOTO" -> handleGoto(w, code.e)
      [] code.op = "IF" -> handleIf(w, code)
      [] code.op = "FOR" -> handleFor(w, code)
      [] code.op = "NEXT" -> handleNext(w, code)
      [] code.op = "GOSUB" -> handleGosub(w, code.e)
      [] code.op = "RETURN" -> handleReturn(w)
      [] code.op = "END" -> handleEnd(w)
      [] code.op = "CLS" -> cls(w)
      [] code.op \in {"REM", "DATA"} -> w
      [] code.op = "DIM" -> handleDim(w, code)
      [] code.op = "READ" -> handleRead(w, code.vs)
      [] code.op = "RESTORE" -> handleRestore(w)
      [] code.op = "POKE" -> handlePoke(w, code)
      [] code.op = "ON" -> handleOn(w, code)
      [] code.op = "SAVE" -> handleSave(w, code.arg)
      [] code.op = "LOAD" -> handleLoad(w, code.arg)
      [] code.op = "KILL" -> handleKill(w, code.arg)
      [] code.op = "AUTO" -> handleAuto(w, code.parts)
      [] OTHER -> IF IncludesEq(code) THEN Throw(w, "?SYNTAX ERROR IN LET")
                  ELSE Throw(w, "?SYNTAX ERROR")

\* The catch block of parseAndExecute.
Catch(r) ==
    IF r.exc # ""
    THEN [r EXCEPT !.st.error = r.exc, !.st.isRunning = FALSE, !.exc = ""]
    ELSE r

parseAndExecute(w, code) == Catch(Dispatch([w EXCEPT !.st.error = NoError], code))

\* --------------------------------------------------------- execution control

\* while (this.state.isRunning && this.state.pc !== -1)
LoopCondition(st) == st.isRunning /\ st.pc # HALT

\* A world with `inLoop`: whether control is inside executeRun's loop, about
\* to start an iteration (FALSE: the public call has returned or thrown).
\* `cold` records that executeRun made a cold start (history only).
Returned(w) == [w |-> w, inLoop |-> FALSE, cold |-> FALSE]

\* The loop test as it would be without the reset of isRunning after the loop.
LoopTestKeepsRunning(w) ==
    IF LoopCondition(w.st) THEN [w |-> w, inLoop |-> TRUE, cold |-> FALSE]
    ELSE IF w.st.isRunning
    THEN Returned(Push(Push(w, ""), "Ready"))
    ELSE Returned(w)

\* The loop test of executeRun and what follows the loop when it fails.
LoopTest(w) ==
    IF LoopCondition(w.st) THEN [w |-> w, inLoop |-> TRUE, cold |-> FALSE]
    ELSE IF w.st.isRunning
    THEN Returned(Push(Push([w EXCEPT !.st.isRunning = FALSE], ""), "Ready"))
    ELSE Returned(w)

\* The cold start as it would be without `this.state.dataPointer = 0`.
ColdStartKeepsCursor(w) ==
    [preScanForData([w EXCEPT !.st.variables = <<>>, !.st.arrays = <<>>,
                              !.st.loopStack = <<>>, !.st.gosubStack = <<>>])
        EXCEPT !.st.pc = findNextLine(w.st.program, 0)]

\* executeRun's cold start: `if (!this.state.isRunning) { ... }`
ColdStart(w) ==
    [preScanForData([w EXCEPT !.st.variables = <<>>, !.st.arrays = <<>>,
                              !.st.loopStack = <<>>, !.st.gosubStack = <<>>])
        EXCEPT !.st.dataPointer = 0,
               !.st.pc = findNextLine(w.st.program, 0)]

\* executeRun as it would be without its first line, the waiting guard.
executeRunUnguarded(w) ==
    [LoopTest([(IF ~w.st.isRunning THEN ColdStart(w) ELSE w) EXCEPT !.st.isRunning = TRUE])
        EXCEPT !.cold = ~w.st.isRunning]

\* executeRun up to its loop.
executeRun(w) ==
    IF w.st.isWaitingForInput THEN Returned(w)
    ELSE [LoopTest([(IF ~w.st.isRunning THEN ColdStart(w) ELSE w)
                       EXCEPT !.st.isRunning = TRUE])
             EXCEPT !.cold = ~w.st.isRunning]

\* The end of an iteration: return if INPUT asked for a value, else move on.
Advance(w) ==
    IF w.st.isWaitingForInput THEN Returned(w)
    ELSE LoopTest([w EXCEPT !.st.pc = findNextLine(w.st.program, w.st.pc)])

\* An iteration after parseAndExecute: report an error and stop, else go on.
AfterStatement(w) ==
    IF w.st.error # NoError
    THEN Returned([printError(w, w.st.error \o " IN " \o ToString(w.st.pc))
                      EXCEPT !.st.isRunning = FALSE])
    ELSE Advance(w)

\* One iteration of executeRun's loop.
executeRunIteration(w) ==
    IF w.st.pc \in DOMAIN w.st.program
    THEN AfterStatement(parseAndExecute(w, w.st.program[w.st.pc]))
    ELSE Advance(w)

\* handleRun with a file name, handleLoad done.
RunLoaded(l) ==
    IF l.exc # ""
    THEN Returned(printError([l EXCEPT !.st.error = l.exc, !.exc = ""], l.exc))
    ELSE executeRun(IF l.st.output # <<>> /\ l.st.output[Len(l.st.output)] = "Ready"
                    THEN [l EXCEPT !.st.output = SubSeq(@, 1, Len(@) - 1)]
                    ELSE l)

handleRun(w, arg) ==
    IF arg # NoArg THEN RunLoaded(handleLoad(w, arg)) ELSE executeRun(w)

\* executeImmediate's last branch, after parseAndExecute.
Report(r) == Returned(IF r.st.error # NoError THEN printError(r, r.st.error) ELSE r)

executeImmediate(w, code) ==
    CASE code.op = "RUN" /\ (code.arg = NoArg \/ code.arg.quoted) -> handleRun(w, code.arg)
      [] code.op = "LIST" -> Returned(list(w))
      [] code.op = "NEW" -> Returned(new(w))
      [] code.op = "CLS" -> Returned(cls(w))
      [] code.op = "SAVE" -> Returned(handleSave(w, code.arg))
      [] code.op = "LOAD" -> Returned(handleLoad(w, code.arg))
      [] code.op = "KILL" -> Returned(handleKill(w, code.arg))
      [] code.op = "AUTO" -> Returned(handleAuto(w, code.parts))
      [] OTHER -> Report(parseAndExecute(w, code))

processLine(w, line) ==
    LET w0 == [w EXCEPT !.st.error = NoError]
    IN  IF w0.st.isAutoMode
        THEN IF line = Blank THEN Returned([w0 EXCEPT !.st.isAutoMode = FALSE])
             ELSE Returned([w0 EXCEPT
                     !.st.program = MapSet(@, w0.st.autoLineNumber, line),
                     !.st.autoLineNumber = @ + w0.st.autoIncrement])
        ELSE IF line = Blank THEN Returned(w0)
        ELSE IF line.op = "#"
        THEN IF line.code # Blank
             THEN Returned([w0 EXCEPT !.st.program = MapSet(@, line.n, line.code)])
             ELSE Returned([w0 EXCEPT !.st.program = MapDelete(@, line.n)])
        ELSE executeImmediate(w0, line)

provideInput(w, value) ==
    IF w.st.isWaitingForInput /\ w.st.inputVariable # ""
    THEN LET varName == w.st.inputVariable
             isString == EndsWithDollar(varName)
             parsed == IF isString THEN StrV(value)
                       ELSE IF parseFloat(value) = NaN THEN NumV(0)
                       ELSE parseFloat(value)
         IN  IF ~isString /\ varName \in DOMAIN w.st.arrays
             THEN Returned(Throw(w, "?TYPE MISMATCH ERROR"))
             ELSE IF varName \in DOMAIN w.st.arrays
             THEN Returned(Throw(w, "?SYNTAX ERROR"))
             ELSE LET w1 == [w EXCEPT !.st.variables = MapSet(@, varName, parsed),
                                      !.st.isWaitingForInput = FALSE,
                                      !.st.inputVariable = ""]
                      n == Len(w1.st.output)
                      w2 == IF n > 0
                            THEN Push([w1 EXCEPT !.st.output[n] = @ \o value], "")
                            ELSE w1
                  IN  executeRun(w2)
    ELSE Returned(w)

\* ------------------------------------------------------------------ history

\* The statement a line comes down to: the statement after THEN when the
\* condition of an IF holds, the line itself otherwise.
RECURSIVE EffectiveStatement(_, _)
EffectiveStatement(st, code) ==
    IF code.op # "IF" THEN code
    ELSE LET left == evaluateExpression(st, code.l)
             right == evaluateExpression(st, code.r)
         IN  IF left.exc = "" /\ right.exc = "" /\ Compare(left.val, code.cmp, right.val)
             THEN EffectiveStatement(st, Statement(code.th))
             ELSE code

\* The value of the variable of the innermost open loop (undefined outside loops).
Counter(st) ==
    IF st.loopStack = <<>> THEN Undefined
    ELSE IF st.loopStack[Len(st.loopStack)].variable \in DOMAIN st.variables
    THEN st.variables[st.loopStack[Len(st.loopStack)].variable]
    ELSE Undefined

\* What one loop iteration adds to the trace: the line executed and the keyword
\* of the statement it came down to, the error it raised, the loop counter and
\* the depths of the two stacks before it, whether it pushed a return line, and
\* for a READ the values it consumed.
Entry(before, after, code) ==
    [ln |-> before.pc, op |-> code.op, error |-> after.error,
     counter |-> Counter(before),
     gosubs |-> Len(before.gosubStack), loops |-> Len(before.loopStack),
     pushed |-> Len(after.gosubStack) > Len(before.gosubStack),
     vals |-> IF code.op = "READ"
              THEN [i \in 1..(after.dataPointer - before.dataPointer) |->
                       after.variables[toUpperCase(code.vs[i])]]
              ELSE <<>>]

TraceEntry(before, after) ==
    Entry(before, after, EffectiveStatement(before, before.program[before.pc]))

\* ------------------------------------------------------------------ actions

\* EmulatorWindow.processCommand empties state.output after every call that
\* returns; an exception leaves the buffer as it is.
Drain(st) == IF thrown = "" THEN [st EXCEPT !.output = <<>>] ELSE st

\* The AUTO history after statement `code` was executed and left state `after`:
\* an AUTO that did not fail starts a new numbering.
Numbering(after, code) ==
    IF code.op = "AUTO" /\ after.error = NoError /\ after.isAutoMode
    THEN [parts |-> code.parts, lines |-> <<>>]
    ELSE auto

\* The file history after statement `code` was executed on Program Store
\* `program`, `ok` telling that it did not fail.
Filing(code, program, ok) ==
    IF ok /\ code.op = "SAVE"
    THEN MapSet(saved, toUpperCase(code.arg.name), [kept |-> TRUE, program |-> program])
    ELSE IF ok /\ code.op = "KILL"
    THEN MapSet(saved, toUpperCase(code.arg.name), [kept |-> FALSE, program |-> <<>>])
    ELSE saved

\* The end of a public call that made result r: the engine's state, and the
\* history of the call.
Finish(fn, line, value, r, resumedAt) ==
    /\ state' = r.w.st
    /\ localStorage' = r.w.ls
    /\ thrown' = r.w.exc
    /\ call' = IF r.inLoop THEN "run" ELSE "idle"
    /\ lastCall' = [fn |-> fn, line |-> line, value |-> value]
    /\ trace' = IF r.cold THEN <<>> ELSE trace
    /\ runProgram' = IF r.cold THEN r.w.st.program ELSE runProgram
    /\ steps' = IF r.cold THEN 0 ELSE steps
    /\ suspendedAt' = IF r.w.exc = "" THEN resumedAt ELSE NoLine
    /\ edits' = IF fn = "processLine" /\ ~state.isAutoMode /\ line.op = "#"
                THEN MapSet(edits, line.n, line.code) ELSE edits
    /\ auto' = IF fn = "processLine" /\ state.isAutoMode /\ line # Blank
               THEN [auto EXCEPT !.lines = Append(@, line)]
               ELSE IF fn = "processLine" THEN Numbering(r.w.st, line)
               ELSE auto
    /\ saved' = Filing(line, state.program,
                       fn = "processLine" /\ ~state.isAutoMode /\ r.w.exc = "")
    /\ firstRun' = firstRun

\* A caller hands a line to processLine (public; EmulatorWindow does so for
\* every line typed while the engine is not waiting for input).
ProcessLine(line) ==
    /\ call = "idle"
    /\ Finish("processLine", line, "",
              processLine(World(Drain(state), localStorage), line), NoLine)

\* Whether the engine is suspended in a run, at the INPUT it executed last.
SuspendedInRun ==
    /\ state.isWaitingForInput /\ state.isRunning /\ state.inputVariable # ""
    /\ trace # <<>>
    /\ trace[Len(trace)].op = "INPUT"
    /\ trace[Len(trace)].ln = state.pc

\* A caller supplies a value to provideInput (EmulatorWindow does so for every
\* line typed while the engine is waiting for input).
ProvideInput(value) ==
    /\ call = "idle"
    /\ state.isWaitingForInput
    /\ Finish("provideInput", Blank, value,
              provideInput(World(Drain(state), localStorage), value),
              IF SuspendedInRun THEN state.pc ELSE NoLine)

\* The run history after an iteration that made result r: the first run that
\* ends in the call that started it is kept, with the lines it left in
\* state.output.
Ending(r) ==
    IF ~r.inLoop /\ lastCall.fn = "processLine" /\ firstRun.on /\ ~firstRun.done
    THEN [firstRun EXCEPT !.done = TRUE, !.program = runProgram,
                          !.output = r.w.st.output]
    ELSE firstRun

\* The end of one iteration of executeRun's loop that made result r.
Iterated(r) ==
    /\ state' = r.w.st
    /\ localStorage' = r.w.ls
    /\ call' = IF r.inLoop THEN "run" ELSE "idle"
    /\ trace' = IF state.pc \in DOMAIN state.program
                THEN Append(trace, TraceEntry(state, r.w.st)) ELSE trace
    /\ suspendedAt' = IF state.pc \in DOMAIN state.program THEN NoLine ELSE suspendedAt
    /\ steps' = steps + 1
    /\ auto' = IF state.pc \in DOMAIN state.program
               THEN Numbering(r.w.st, EffectiveStatement(state, state.program[state.pc]))
               ELSE auto
    /\ saved' = IF state.pc \in DOMAIN state.program
                THEN Filing(EffectiveStatement(state, state.program[state.pc]),
                            state.program, r.w.st.error = NoError)
                ELSE saved
    /\ firstRun' = Ending(r)
    /\ UNCHANGED <<thrown, lastCall, runProgram, edits>>

\* One iteration of the loop of executeRun.
RunStep ==
    /\ call = "run"
    /\ steps < MaxSteps
    /\ Iterated(executeRunIteration(World(state, localStorage)))

\* ---------------------------------------------------------------- programs
\* The Program Stores the runs start from; each is what typing its numbered
\* lines into a fresh engine leaves in state.program.

Program(pairs) == MapOf(pairs)

InputProgram ==
    Program(<< <<10, StInput("X")>>, <<20, StPrint(Var("X"))>>, <<30, StEnd>> >>)

InputInSubProgram ==
    Program(<< <<10, StGosub(Num(40))>>, <<20, StPrint(Var("X"))>>, <<30, StEnd>>,
               <<40, StIf(Num(1), "=", Num(1), StInput("x"))>>, <<50, StReturn>> >>)

\* INPUT with no variable after it.
EmptyInputProgram ==
    Program(<< <<10, StInput("")>>, <<20, StPrint(Lit("A"))>> >>)

GosubProgram ==
    Program(<< <<10, StGosub(Num(100))>>, <<20, StPrint(Lit("A"))>>, <<30, StEnd>>,
               <<100, StPrint(Lit("B"))>>, <<110, StReturn>> >>)

NestedGosubProgram ==
    Program(<< <<10, StGosub(Num(40))>>, <<20, StGosub(Num(60))>>, <<30, StEnd>>,
               <<40, StIf(Num(1), "<", Num(2), StGosub(Num(60)))>>, <<50, StReturn>>,
               <<60, StPrint(Lit("C"))>>, <<70, StReturn>> >>)

LoopFrom == {1, 2}
LoopTo == {2, 5}
LoopStep == {1, 2, 3}

\* The program of the specification's FOR example, for the loop FOR I=a TO b STEP s.
SumProgram(a, b, s) ==
    Program(<< <<10, StLet(Var("X"), Num(0))>>,
               <<20, StFor("I", Num(a), Num(b), Num(s))>>,
               <<30, StLet(Var("X"), Add(Var("X"), Var("I")))>>,
               <<40, StNext("I")>>,
               <<50, StPrint(Var("X"))>> >>)

\* The same loop without STEP, printing its variable and closed by a plain NEXT.
CountProgram(a, b) ==
    Program(<< <<20, StForNoStep("I", Num(a), Num(b))>>,
               <<30, StPrint(Var("I"))>>,
               <<40, StNext("")>>,
               <<50, StPrint(Lit("done"))>> >>)

DataProgram ==
    Program(<< <<10, StData(<<Num(1), Num(2), Num(3)>>)>>, <<20, StRead(<<"X">>)>>,
               <<30, StPrint(Var("X"))>>, <<40, StRestore>>,
               <<50, StRead(<<"Y">>)>>, <<60, StPrint(Var("Y"))>> >>)

\* DATA statements after and between the READs, and one READ too many.
DataOrderProgram ==
    Program(<< <<10, StRead(<<"X">>)>>, <<20, StData(<<Num(7)>>)>>,
               <<30, StRead(<<"Y", "Z">>)>>, <<40, StData(<<Num(8), Lit("w")>>)>>,
               <<50, StRestore>>, <<60, StRead(<<"Z", "Y", "X">>)>>,
               <<70, StRead(<<"X">>)>>, <<80, StPrint(Var("X"))>> >>)

\* The size N of DIM A(N), and the subscripts written and read: 0..N+1.
DimSize == 2
Subscripts == 0..(DimSize + 1)

\* DIM A(DimSize), then a write of A(i) and a read of A(j).
DimProgram(i, j) ==
    Program(<< <<10, StDim("A", Num(DimSize))>>,
               <<20, StLet(Arr("A", Num(i)), Num(5))>>,
               <<30, StLet(Var("X"), Arr("A", Num(j)))>>,
               <<40, StPrint(Var("X"))>> >>)

\* Three nested loops whose NEXT names v: the middle loop, the outer one, the
\* inner one, none, or a variable with no loop; then NEXT until none is open.
NextNames == {"I", "H", "J", "", "K"}

NestProgram(v) ==
    Program(<< <<5, StForNoStep("H", Num(1), Num(1))>>,
               <<10, StForNoStep("I", Num(1), Num(2))>>,
               <<20, StForNoStep("J", Num(1), Num(2))>>,
               <<30, StNext(v)>>,
               <<40, StPrint(Lit("X"))>>,
               <<50, StNext("")>>,
               <<60, StNext("")>> >>)

\* A cell read, written with 9, then address a written with v and both read.
PokeAddresses == {7, MemorySize - 1, MemorySize, 0 - 1}
PokeValues == {255, 256, 300, 0 - 1}

PokeProgram(a, v) ==
    Program(<< <<10, StPrint(Peek(Num(7)))>>,
               <<20, StPoke(Num(7), Num(9))>>,
               <<30, StPoke(Num(a), Num(v))>>,
               <<40, StPrint(Peek(Num(a)))>>,
               <<50, StPrint(Peek(Num(7)))>> >>)

\* ON with an index that selects the first line, the second (which does not
\* exist) or none.
OnIndices == {Num(0), Num(1), Num(2), Num(3), Half(0), Half(1), Half(2), Lit("a")}

OnProgram(e, kind) ==
    Program(<< <<10, StOn(e, kind, <<40, 99>>)>>,
               <<20, StPrint(Lit("F"))>>,
               <<30, StEnd>>,
               <<40, StPrint(Lit("A"))>>,
               <<50, StReturn>> >>)

\* INPUT into an element of a declared array.
ElementInputProgram ==
    Program(<< <<10, StDim("A", Num(DimSize))>>,
               <<20, StInput("A(1)")>>,
               <<30, StPrint(Arr("A", Num(1)))>> >>)

\* A byte written at the top of memory, then read and written at address a.
PeekAddresses == {0, MemorySize - 1, MemorySize, 0 - 1}

PeekProgram(a) ==
    Program(<< <<10, StPoke(Num(MemorySize - 1), Num(300))>>,
               <<20, StPrint(Peek(Num(a)))>>,
               <<30, StPoke(Num(a), Num(1))>>,
               <<40, StPrint(Peek(Num(a)))>> >>)

\* A jump back to the first line f of the program, made once, by GOTO, by
\* IF ... THEN and by ON ... GOTO.
FirstLines == {0, 5}

Jumps(f) ==
    {StGoto(Num(f)), StIf(Var("X"), "=", Num(1), StLineNo(f)),
     StOn(Var("X"), "GOTO", <<f, 40>>)}

JumpProgram(f, jump) ==
    Program(<< <<f, StPrint(Lit("A"))>>,
               <<10, StIf(Var("X"), "=", Num(1), StLineNo(40))>>,
               <<20, StLet(Var("X"), Num(1))>>,
               <<30, jump>>,
               <<40, StEnd>> >>)

\* Statements that raise an error when run on line 20 of ErrorProgram.
Failing ==
    { StGoto(Num(99)), StGosub(Num(99)), StIf(Num(1), "=", Num(1), StLineNo(99)),
      StReturn, StNext(""), StNext("J"), StRead(<<"X">>),
      StLet(Arr("B", Num(1)), Num(1)), StPrint(Arr("B", Num(1))),
      StRun(NoArg), StSave(Bare("a")), StKill(Quoted("b")), StLoad(Quoted("a")) }

ErrorProgram(code) ==
    Program(<< <<10, StFor("I", Num(1), Num(2), Num(1))>>, <<20, code>>,
               <<30, StPrint(Num(2))>> >>)

Programs ==
    {InputProgram, InputInSubProgram, EmptyInputProgram, ElementInputProgram, GosubProgram, NestedGosubProgram,
     DataProgram, DataOrderProgram}
    \cup {SumProgram(a, b, s) : a \in LoopFrom, b \in LoopTo, s \in LoopStep}
    \cup {CountProgram(a, b) : a \in LoopFrom, b \in LoopTo}
    \cup {DimProgram(i, j) : i \in Subscripts, j \in Subscripts}
    \cup {ErrorProgram(code) : code \in Failing}
    \cup {PeekProgram(a) : a \in PeekAddresses}
    \cup {NestProgram(v) : v \in NextNames}
    \cup {PokeProgram(a, v) : a \in PokeAddresses, v \in PokeValues}
    \cup {OnProgram(e, kind) : e \in OnIndices, kind \in {"GOTO", "GOSUB"}}
    \cup UNION {{JumpProgram(f, jump) : jump \in Jumps(f)} : f \in FirstLines}

\* What localStorage may hold under the key of file A when the page loads.
Storages ==
    { <<>> }
    \cup { (getLocalStorageKey("A") :> Stored(kind, <<>>)) : kind \in {"garbage", "object", "scalars"} }

\* The lines typed and the values supplied.
Typed ==
    { StRun(NoArg), StRun(Quoted("a")), StList, StNew, Numbered(10, Blank),
      StGoto(Num(99)), StPrint(Arr("B", Num(1))),
      StSave(Quoted("a")), StSave(Bare("a")), StLoad(Quoted("a")), StLoad(Bare("a")),
      StLoad(Quoted("A")),
      StKill(Quoted("a")), StKill(Quoted("b")), StKill(NoArg), StAuto(<<"x">>) }

Values == {"5", "abc"}

\* --------------------------------------------------------- specifications

\* The run history before any run, kept or not.
NoRun(on) == [on |-> on, done |-> FALSE, program |-> <<>>, output |-> <<>>]

\* A fresh engine into which the numbered lines of `program` have been typed,
\* in a browser whose localStorage is `storage`, with run history `first`.
Started(program, storage, first) ==
    /\ state = [getInitialState EXCEPT !.program = program]
    /\ localStorage = storage
    /\ call = "idle"
    /\ thrown = ""
    /\ lastCall = [fn |-> "", line |-> Blank, value |-> ""]
    /\ trace = <<>>
    /\ runProgram = <<>>
    /\ suspendedAt = NoLine
    /\ steps = 0
    /\ edits = program
    /\ auto = [parts |-> <<>>, lines |-> <<>>]
    /\ saved = <<>>
    /\ firstRun = first

\* The same with no run history kept.
Loaded(program, storage) == Started(program, storage, NoRun(FALSE))

Init == \E program \in Programs : \E storage \in Storages : Loaded(program, storage)

Next ==
    \/ \E line \in Typed : ProcessLine(line)
    \/ \E value \in Values : ProvideInput(value)
    \/ RunStep

Spec == Init /\ [][Next]_vars

\* Line editing: numbered lines and LIST typed into a fresh engine.
EditLines == {20, 5, 10, 0}
EditTexts == {StPrint(Lit("A")), StEnd, Blank}
EditTyped == {Numbered(n, code) : n \in EditLines, code \in EditTexts} \cup {StList}

EditInit == Loaded(<<>>, <<>>)

EditNext == \E line \in EditTyped : ProcessLine(line)

EditSpec == EditInit /\ [][EditNext]_vars

\* AUTO mode: AUTO, lines that read as commands, blank lines and RUN typed into
\* a fresh engine or one that holds a program; at most MaxCaptured lines are
\* submitted after each AUTO.
MaxCaptured == 2
AutoTyped == {StAuto(<<>>), Blank, StRun(NoArg), StNew, StPrint(Lit("A"))}

AutoInit == \E program \in {<<>>, GosubProgram} : Loaded(program, <<>>)

AutoNext ==
    \/ \E line \in AutoTyped :
          /\ state.isAutoMode /\ line # Blank => Len(auto.lines) < MaxCaptured
          /\ ProcessLine(line)
    \/ RunStep

AutoSpec == AutoInit /\ [][AutoNext]_vars

\* Repeated runs: RUN, NEW and a direct PRINT typed into an engine that holds a
\* program without INPUT, with the history of the first run kept.
\* A loop whose body is left by GOTO and whose FOR is then executed again.
AgainProgram ==
    Program(<< <<10, StFor("I", Num(1), Num(2), Num(1))>>,
               <<20, StIf(Var("X"), "=", Num(1), StLineNo(60))>>,
               <<30, StLet(Var("X"), Num(1))>>,
               <<40, StGoto(Num(10))>>,
               <<60, StPrint(Var("I"))>>,
               <<70, StNext("I")>> >>)

RepeatPrograms ==
    {PokeProgram(a, v) : a \in PokeAddresses, v \in PokeValues}
    \cup {GosubProgram, DataProgram, SumProgram(1, 2, 1), CountProgram(1, 2), AgainProgram}
RepeatTyped == {StRun(NoArg), StNew, StPrint(Lit("A")), Numbered(10, Blank)}

RepeatInit == \E program \in RepeatPrograms : Started(program, <<>>, NoRun(TRUE))

RepeatNext ==
    \/ \E line \in RepeatTyped : ProcessLine(line)
    \/ RunStep

RepeatSpec == RepeatInit /\ [][RepeatNext]_vars

\* Direct mode: INPUT, PRINT and RUN typed as immediate commands into a fresh
\* engine or one that holds a program without INPUT, and values supplied.
DirectTyped == {StInput("X"), StPrint(Var("X")), StRun(NoArg), StLet(Var("Y"), Num(1))}

DirectInit == \E program \in {<<>>, GosubProgram, DataProgram, CountProgram(1, 2)} : Loaded(program, <<>>)

DirectNext ==
    \/ \E line \in DirectTyped : ProcessLine(line)
    \/ \E value \in Values : ProvideInput(value)
    \/ RunStep

DirectSpec == DirectInit /\ [][DirectNext]_vars

\* ------------------------------------------------------------------ claims

\* The last line of an output buffer ("" when the buffer is empty).
LastLine(out) == IF out = <<>> THEN "" ELSE out[Len(out)]

\* The step is one iteration of the run loop that executed a statement.
Executes == call = "run" /\ Len(trace') = Len(trace) + 1

\* The step is a call processLine(line).
Calls(line) ==
    call = "idle" /\ lastCall'.fn = "processLine" /\ lastCall'.line = line

\* C1: when a running program is suspended at an INPUT on line L and a value is
\* supplied, the first statement executed next is the one on the smallest
\* program line greater than L, never the INPUT on line L again.
ResumesAfterInput ==
    [][Executes /\ suspendedAt # NoLine =>
          trace'[Len(trace')].ln = findNextLine(state.program, suspendedAt)]_vars

RECURSIVE Unmatched(_)
Unmatched(t) ==
    IF t = <<>> THEN <<>>
    ELSE LET e == t[Len(t)]
             rest == Unmatched(SubSeq(t, 1, Len(t) - 1))
         IN  IF e.error # NoError THEN rest
             ELSE IF e.op = "GOSUB" \/ (e.op = "ON" /\ e.pushed) THEN Append(rest, e)
             ELSE IF e.op = "RETURN" /\ rest # <<>> THEN SubSeq(rest, 1, Len(rest) - 1)
             ELSE rest

\* C3: a RETURN executed during RUN answers the innermost GOSUB not yet
\* returned from (last in, first out): execution goes on at the smallest
\* program line greater than the line L of that GOSUB, and gosubStack is as
\* deep as it was before that GOSUB.
ReturnResumesAfterGosub ==
    [][Executes /\ trace'[Len(trace')].op = "RETURN"
                /\ trace'[Len(trace')].error = NoError =>
          /\ Unmatched(trace) # <<>>
          /\ state'.pc = findNextLine(state.program,
                                      Unmatched(trace)[Len(Unmatched(trace))].ln)
          /\ Len(state'.gosubStack) = Unmatched(trace)[Len(Unmatched(trace))].gosubs]_vars

\* A RETURN from a subroutine called from a subroutine has been executed, and
\* then the RETURN of the outer one.
ReturnResumesAfterGosubWitness ==
    \E i \in 1..Len(trace) : \E j \in 1..Len(trace) :
        /\ i < j
        /\ trace[i].op = "RETURN" /\ trace[i].error = NoError /\ trace[i].gosubs = 2
        /\ trace[j].op = "RETURN" /\ trace[j].error = NoError /\ trace[j].gosubs = 1

\* The programs of the form 20 FOR V=a TO b [STEP s] / 30 body / 40 NEXT / 50 ...
IsLoopProgram(p) ==
    /\ {20, 30, 40, 50} \subseteq DOMAIN p
    /\ p[20].op = "FOR" /\ p[40].op = "NEXT"

First(p) == p[20].from.n
Limit(p) == p[20].to.n
Stride(p) == IF "step" \in DOMAIN p[20] THEN p[20].step.n ELSE 1

\* floor((b-a)/s)+1
Rounds(p) == ((Limit(p) - First(p)) \div Stride(p)) + 1

\* a + (a+s) + ... over n terms
RECURSIVE Total(_, _, _)
Total(a, s, n) == IF n = 0 THEN 0 ELSE a + Total(a + s, s, n - 1)

IsBody(e) == e.ln = 30
Body(t) == SelectSeq(t, IsBody)

\* C4: in a run of FOR V=a TO b STEP s (a <= b, s > 0) the body executes with
\* V = a, a+s, ... in order, floor((b-a)/s)+1 times in all; the statement after
\* NEXT executes next, with the loop's entry popped; the sum of the values of V
\* is what the program prints.
LoopRunsExactly ==
    IsLoopProgram(runProgram) =>
        /\ Len(Body(trace)) <= Rounds(runProgram)
        /\ \A k \in 1..Len(Body(trace)) :
              /\ Body(trace)[k].counter = NumV(First(runProgram) + (k - 1) * Stride(runProgram))
              /\ Body(trace)[k].error = NoError
              /\ Body(trace)[k].loops = 1
        /\ \A i \in 1..Len(trace) :
              trace[i].ln = 50 =>
                  /\ Len(Body(trace)) = Rounds(runProgram)
                  /\ trace[i].loops = 0
                  /\ i > 1 /\ trace[i - 1].ln = 40
                  /\ state.loopStack = <<>>
                  /\ (runProgram[30].op = "LET" /\ lastCall.line = StRun(NoArg)
                         /\ call = "idle") =>
                        state.output =
                            <<ToString(Total(First(runProgram), Stride(runProgram),
                                             Rounds(runProgram))), "", "", "Ready">>

\* FOR I=1 TO 5 has run to its end and 15 is printed.
LoopRunsExactlyWitness ==
    /\ IsLoopProgram(runProgram)
    /\ First(runProgram) = 1 /\ Limit(runProgram) = 5 /\ Stride(runProgram) = 1
    /\ runProgram[30].op = "LET"
    /\ Len(Body(trace)) = 5
    /\ call = "idle"
    /\ state.output = <<"15", "", "", "Ready">>

\* The number of DATA items on the lines of p below line ln.
RECURSIVE ItemsOn(_, _)
ItemsOn(p, lines) ==
    IF lines = {} THEN 0
    ELSE LET ln == CHOOSE l \in lines : TRUE
         IN  (IF p[ln].op = "DATA" THEN Len(p[ln].items) ELSE 0) + ItemsOn(p, lines \ {ln})

ItemsBelow(p, ln) == ItemsOn(p, {l \in DOMAIN p : l < ln})

PoolSize(p) == ItemsOn(p, DOMAIN p)

\* The line holding the k-th element of the DATA pool of p.
PoolLine(p, k) ==
    CHOOSE ln \in DOMAIN p :
        /\ p[ln].op = "DATA"
        /\ ItemsBelow(p, ln) < k
        /\ k <= ItemsBelow(p, ln) + Len(p[ln].items)

\* The k-th element of the DATA pool of p, lines taken in ascending order.
PoolItem(p, k) == DataValue(p[PoolLine(p, k)].items[k - ItemsBelow(p, PoolLine(p, k))])

\* The values read in a trace since its start or its last RESTORE.
RECURSIVE Reads(_)
Reads(t) ==
    IF t = <<>> THEN <<>>
    ELSE IF t[Len(t)].op = "RESTORE" THEN <<>>
    ELSE Reads(SubSeq(t, 1, Len(t) - 1)) \o t[Len(t)].vals

\* C5: the k-th value read since the start of the run or the last RESTORE is
\* the k-th element of the DATA pool (all DATA values by ascending line
\* number); a READ fails, with the out-of-data error, exactly when the pool is
\* exhausted.
ReadsFollowPool ==
    /\ Len(Reads(trace)) <= PoolSize(runProgram)
    /\ \A k \in 1..Len(Reads(trace)) : Reads(trace)[k] = PoolItem(runProgram, k)
    /\ \A i \in 1..Len(trace) :
          trace[i].op = "READ" =>
              IF trace[i].error = NoError
              THEN Len(trace[i].vals) = Len(runProgram[trace[i].ln].vs)
              ELSE /\ trace[i].error = "?OUT OF DATA ERROR"
                   /\ Len(Reads(SubSeq(trace, 1, i))) = PoolSize(runProgram)

\* Values were read, the pool was restored and read to its end, and one more
\* READ has failed.
ReadsFollowPoolWitness ==
    \E i \in 1..Len(trace) : \E j \in 1..Len(trace) :
        /\ i < j
        /\ trace[i].op = "RESTORE"
        /\ trace[j].op = "READ" /\ trace[j].error = "?OUT OF DATA ERROR"
        /\ Len(Reads(SubSeq(trace, 1, j - 1))) = 3

\* The programs of the form 10 DIM A(N) / 20 LET A(i)=v / 30 LET X=A(j) / ...
IsDimProgram(p) ==
    /\ {10, 20, 30} \subseteq DOMAIN p
    /\ p[10].op = "DIM"
    /\ p[20].op = "LET" /\ p[20].t.k = "arr"
    /\ p[30].op = "LET" /\ p[30].e.k = "arr"

Declared(p) == p[10].n.n
Written(p) == p[20].t.i.n
Fetched(p) == p[30].e.i.n

\* The error the claim expects of an access with subscript i.
Expected(p, i) == IF 0 <= i /\ i <= Declared(p) THEN NoError ELSE "?BAD SUBSCRIPT"

\* C6: after DIM A(N), writing and reading A(i) succeeds for 0 <= i <= N, an
\* element never assigned reads as 0, and an access with i > N fails with the
\* bad-subscript error and leaves the array as it was.
SubscriptsChecked ==
    IsDimProgram(runProgram) =>
        \A k \in 1..Len(trace) :
            /\ trace[k].ln = 20 =>
                  /\ trace[k].error = Expected(runProgram, Written(runProgram))
                  /\ "A" \in DOMAIN state.arrays =>
                        DOMAIN state.arrays["A"] = 0..Declared(runProgram)
            /\ trace[k].ln = 30 =>
                  /\ trace[k].error = Expected(runProgram, Fetched(runProgram))
                  /\ (trace[k].error = NoError /\ "X" \in DOMAIN state.variables) =>
                        state.variables["X"] =
                            IF Fetched(runProgram) = Written(runProgram)
                            THEN NumV(5) ELSE NumV(0)

\* C7: a failing immediate command is no exception to the caller of
\* processLine: the call returns, and the output ends with the message, a blank
\* line and the ready marker.
ImmediateFailuresReported ==
    (lastCall.fn = "processLine" /\ call = "idle"
        /\ lastCall.line.op \notin {"RUN", "#", ""}) =>
        /\ thrown = ""
        /\ state.error # NoError =>
              /\ Len(state.output) >= 3
              /\ SubSeq(state.output, Len(state.output) - 2, Len(state.output))
                    = <<state.error, "", "Ready">>

\* C8: when the statement on line L raises an error during RUN, the output
\* gains the line "<message> IN L", running becomes false and the run loop is
\* left, so that no later statement executes in that run.
RunErrorsReported ==
    [][Executes /\ trace'[Len(trace')].error # NoError =>
          /\ \E i \in 1..Len(state'.output) :
                state'.output[i] = trace'[Len(trace')].error \o " IN " \o ToString(state.pc)
          /\ ~state'.isRunning
          /\ call' = "idle"]_vars

\* The line number a GOTO about to be executed names.
Target == EffectiveStatement(state, state.program[state.pc]).e.n

\* C9: a GOTO executed during RUN whose target is no line of the Program Store
\* fails with the line-not-found error, reported with the line number of the
\* GOTO; the run halts and the Program Store is unchanged.
GotoMissingLineFails ==
    [][Executes /\ trace'[Len(trace')].op = "GOTO"
                /\ Target \notin DOMAIN state.program =>
          /\ trace'[Len(trace')].error = "?LINE NOT FOUND: " \o ToString(Target)
          /\ state'.output = state.output \o
                <<"?LINE NOT FOUND: " \o ToString(Target) \o " IN " \o ToString(state.pc),
                  "", "Ready">>
          /\ ~state'.isRunning
          /\ call' = "idle"
          /\ state'.program = state.program]_vars

\* A run has ended at GOTO 99 on line 20, reported as such.
GotoMissingLineFailsWitness ==
    /\ call = "idle"
    /\ trace # <<>> /\ trace[Len(trace)].op = "GOTO" /\ trace[Len(trace)].ln = 20
    /\ ~state.isRunning
    /\ state.program = runProgram
    /\ state.output = <<"?LINE NOT FOUND: 99 IN 20", "", "Ready">>

\* C10: a LOAD that fails, typed or executed in a run, leaves the Program
\* Store, Variables, Arrays and both stacks as they were.
FailedLoadKeepsState ==
    [][(\/ call = "idle" /\ lastCall'.fn = "processLine"
             /\ lastCall'.line.op = "LOAD" /\ thrown' # ""
        \/ Executes /\ trace'[Len(trace')].op = "LOAD"
             /\ trace'[Len(trace')].error # NoError) =>
          /\ state'.program = state.program
          /\ state'.variables = state.variables
          /\ state'.arrays = state.arrays
          /\ state'.loopStack = state.loopStack
          /\ state'.gosubStack = state.gosubStack]_vars

\* C11: NEW, from any state in which it is dispatched, empties the Program
\* Store, Variables, Arrays, loopStack and gosubStack and resets the program
\* counter; a LIST right after NEW outputs no program line, only the ready
\* marker.
NewClearsState ==
    [][/\ (Calls(StNew) /\ ~state.isAutoMode) =>
            /\ state'.program = <<>>
            /\ state'.variables = <<>> /\ state'.arrays = <<>>
            /\ state'.loopStack = <<>> /\ state'.gosubStack = <<>>
            /\ state'.pc = getInitialState.pc
            /\ ~state'.isRunning /\ ~state'.isWaitingForInput
            /\ call' = "idle" /\ thrown' = ""
       /\ (Calls(StList) /\ lastCall.fn = "processLine" /\ lastCall.line = StNew
              /\ ~state.isAutoMode) =>
            /\ state'.output = <<"Ready">>
            /\ state'.program = <<>>]_vars

\* NEW has been executed after a run that stopped inside a loop.
NewClearsStateWitness ==
    /\ lastCall.fn = "processLine" /\ lastCall.line = StNew
    /\ trace # <<>> /\ trace[Len(trace)].loops = 1
    /\ state.program = <<>> /\ state.loopStack = <<>>
    /\ state.output = <<"Ready">>

\* C12: after AUTO with no arguments, the k-th non-blank line submitted is
\* stored in the Program Store at line number 10*k, whatever its text (RUN and
\* NEW included), and nothing else happens: no statement is executed, no run
\* starts, no other line of the store changes and AUTO mode stays on; a blank
\* line submitted in AUTO mode switches the mode off and leaves the store as
\* it is.
Captured == Len(auto'.lines)

AutoCaptures ==
    [][/\ (state.isAutoMode /\ auto.parts = <<>>
             /\ \E line \in AutoTyped \ {Blank} : Calls(line)) =>
               /\ state'.program = MapSet(state.program, 10 * Captured, lastCall'.line)
               /\ state' = [Drain(state) EXCEPT !.program = state'.program,
                                                !.autoLineNumber = 10 * (Captured + 1),
                                                !.error = NoError]
               /\ state'.isAutoMode
               /\ call' = "idle" /\ thrown' = ""
               /\ trace' = trace /\ runProgram' = runProgram
               /\ localStorage' = localStorage
       /\ (state.isAutoMode /\ Calls(Blank)) =>
               /\ ~state'.isAutoMode
               /\ state'.program = state.program
               /\ call' = "idle" /\ trace' = trace]_vars

AutoCapturesWitness ==
    /\ ~state.isAutoMode
    /\ lastCall.fn = "processLine" /\ lastCall.line = Blank
    /\ auto = [parts |-> <<>>, lines |-> <<StRun(NoArg), StNew>>]
    /\ state.program[10] = StRun(NoArg) /\ state.program[20] = StNew
    /\ 30 \notin DOMAIN state.program
    /\ trace = <<>>

\* C13: LIST outputs exactly the stored lines: for each line number whose most
\* recent submission had a non-empty remainder, the number and that remainder,
\* in strictly ascending order of line number, and nothing for a number whose
\* last submission was empty; LIST leaves the Program Store unchanged, and a
\* LIST that directly follows a LIST outputs the same lines again.
Kept(ed) == {n \in DOMAIN ed : ed[n] # Blank}

Nth(S, i) == CHOOSE x \in S : Cardinality({y \in S : y < x}) = i - 1

ListedLine(ed, n) == ToString(n) \o " " \o Show(ed[n])

Listing(ed) ==
    [i \in 1..Cardinality(Kept(ed)) |-> ListedLine(ed, Nth(Kept(ed), i))]
        \o (IF Kept(ed) = {} THEN <<>> ELSE <<"">>) \o <<"Ready">>

ListShowsStore ==
    [][Calls(StList) =>
          /\ state'.output = Listing(edits)
          /\ state'.program = state.program
          /\ DOMAIN state.program = Kept(edits)
          /\ (lastCall.fn = "processLine" /\ lastCall.line = StList) =>
                 state'.output = state.output]_vars

ListShowsStoreWitness ==
    /\ lastCall.fn = "processLine" /\ lastCall.line = StList
    /\ DOMAIN edits = {5, 10, 20} /\ edits[10] = Blank
    /\ DOMAIN state.program = {5, 20}
    /\ state.output = <<ListedLine(edits, 5), ListedLine(edits, 20), "", "Ready">>
    /\ edits[5] = StEnd /\ edits[20] = StPrint(Lit("A"))

\* C14: a PEEK(a) executed with an address a outside 0..65535 fails with
\* "?ILLEGAL QUANTITY ERROR", the error of POKE, and prints no value.
IsPeek(code) == code.op = "PRINT" /\ code.e.k = "peek" /\ code.e.addr.k = "num"

PeekOutside ==
    /\ Executes
    /\ IsPeek(state.program[state.pc])
    /\ ~InMemory(NumV(state.program[state.pc].e.addr.n))

PeekChecked ==
    [][PeekOutside =>
          /\ trace'[Len(trace')].error = "?ILLEGAL QUANTITY ERROR"
          /\ \A i \in 1..Len(state'.output) : state'.output[i] # String(Undefined)]_vars

\* C15: after a GOTO X that succeeds during RUN - written GOTO X, IF ... THEN X
\* or ON ... GOTO selecting X - the next statement executed is the one stored
\* at line X, for every line X of the Program Store, the first one included.
Selected(st, code) == MathRound(evaluateExpression(st, code.e).val)

Aimed(st, code) ==
    IF code.op = "GOTO" /\ code.e.k = "num" THEN code.e.n
    ELSE IF code.op = "ON" /\ code.kind = "GOTO" /\ Selected(st, code).t = "num"
            /\ Selected(st, code).n \in 1..Len(code.lines)
    THEN code.lines[Selected(st, code).n]
    ELSE NoLine

Aim == Aimed(state, EffectiveStatement(state, state.program[state.pc]))

GotoSucceeds ==
    /\ Executes
    /\ Aim # NoLine
    /\ trace'[Len(trace')].error = NoError

GotoLandsOnTarget ==
    [][GotoSucceeds => state'.pc = Aim /\ call' = "run"]_vars

\* C16: whenever a public call has returned, the program counter is the halt
\* sentinel exactly when no program is in progress (initial state, after NEW,
\* END, a run-time error or the end of the program), and is not the sentinel
\* while a program is running or suspended at an INPUT.
PcIsSentinelWhenHalted ==
    call = "idle" => ((state.pc = HALT) <=> ~state.isRunning)

\* C17: whenever waitingForInput is true a non-empty target variable is
\* recorded (so that the next value supplied is accepted and ends the wait).
InputTargetRecorded ==
    state.isWaitingForInput => state.inputVariable # ""

\* C18: a value supplied while the pending INPUT target is an array element
\* (NAME(i)) is rejected: it creates or changes no entry of Variables and no
\* array element.
IsElement(name) == \E i \in 1..Len(name) : SubSeq(name, i, i) = "("

SuppliesToElement ==
    /\ call = "idle"
    /\ state.isWaitingForInput /\ IsElement(state.inputVariable)
    /\ lastCall'.fn = "provideInput"

ElementInputRejected ==
    [][SuppliesToElement =>
          /\ state'.variables = state.variables
          /\ state'.arrays = state.arrays]_vars

\* C19: a NEXT executed with an empty loopStack fails with "?NEXT WITHOUT FOR"
\* and a NEXT V with no loop on V fails with "?NEXT WITHOUT FOR FOR V", both
\* leaving the stack alone; otherwise NEXT V, V the variable of one open loop,
\* drops the loops nested inside V's loop and none outside it, and NEXT with
\* no name takes the innermost loop and drops none; the loop taken is then
\* stepped: it stays on the stack, its variable advanced, if the new value has
\* not passed the limit, and its own entry is removed if it has.
NextName == EffectiveStatement(state, state.program[state.pc]).v

ExecutesNext ==
    /\ Executes
    /\ EffectiveStatement(state, state.program[state.pc]).op = "NEXT"

OpenOn(v) == {i \in 1..Len(state.loopStack) : state.loopStack[i].variable = v}

Taken ==
    IF NextName = "" THEN Len(state.loopStack) ELSE CHOOSE i \in OpenOn(NextName) : TRUE

Stepped(loop) == state.variables[loop.variable].n + loop.step.n

Passed(loop) ==
    IF loop.step.n > 0 THEN Stepped(loop) > loop.end.n ELSE Stepped(loop) < loop.end.n

Unwound(i) ==
    IF Passed(state.loopStack[i])
    THEN /\ state'.loopStack = SubSeq(state.loopStack, 1, i - 1)
         /\ state'.variables = state.variables
    ELSE /\ state'.loopStack = SubSeq(state.loopStack, 1, i)
         /\ state'.variables =
                MapSet(state.variables, state.loopStack[i].variable,
                       NumV(Stepped(state.loopStack[i])))
         /\ state'.pc = findNextLine(state.program, state.loopStack[i].pc)

NextUnwinds ==
    [][ExecutesNext =>
          IF state.loopStack = <<>>
          THEN /\ trace'[Len(trace')].error = "?NEXT WITHOUT FOR"
               /\ state'.loopStack = state.loopStack
          ELSE IF NextName # "" /\ OpenOn(NextName) = {}
          THEN /\ trace'[Len(trace')].error = "?NEXT WITHOUT FOR FOR " \o NextName
               /\ state'.loopStack = state.loopStack
          ELSE (NextName = "" \/ Cardinality(OpenOn(NextName)) = 1) =>
                  /\ trace'[Len(trace')].error = NoError
                  /\ Unwound(Taken)]_vars

\* NEXT I was executed with the loops on H, I and J open, in that order, and
\* the loop on I goes on without the loop on J.
NextUnwindsWitness ==
    /\ trace # <<>>
    /\ trace[Len(trace)].op = "NEXT" /\ trace[Len(trace)].ln = 30
    /\ trace[Len(trace)].loops = 3 /\ trace[Len(trace)].error = NoError
    /\ runProgram = NestProgram("I")
    /\ Len(state.loopStack) = 2
    /\ state.loopStack[2].variable = "I"
    /\ state.variables["I"] = NumV(2)

\* C20: a RUN issued while no program is running makes a cold start: Variables,
\* Arrays, loopStack and gosubStack are empty, the DATA pool is the one of the
\* current program with the cursor at 0, and the statement executed first is
\* the one on the lowest-numbered line of the program.
ColdRun ==
    /\ Calls(StRun(NoArg))
    /\ ~state.isAutoMode /\ ~state.isRunning /\ ~state.isWaitingForInput

Lowest(p) == CHOOSE ln \in DOMAIN p : \A other \in DOMAIN p : ln <= other

Pool(p) == [k \in 1..PoolSize(p) |-> PoolItem(p, k)]

ColdRunStartsClean ==
    [][ColdRun =>
          /\ state'.variables = <<>> /\ state'.arrays = <<>>
          /\ state'.loopStack = <<>> /\ state'.gosubStack = <<>>
          /\ state'.data = Pool(state.program) /\ state'.dataPointer = 0
          /\ state'.program = state.program
          /\ state.program # <<>> =>
                 /\ call' = "run"
                 /\ state'.pc = Lowest(state.program)]_vars

\* C21: every key of the Program Store is a positive integer, in every state
\* reached by submitting numbered lines.
KeysPositive ==
    \A ln \in DOMAIN state.program : ln > 0

\* C22: whenever processLine or provideInput has returned (or thrown), running
\* is true only if waitingForInput is true: the program ran to its halt inside
\* the call or is suspended at an INPUT.
HaltsOrWaits ==
    call = "idle" => (state.isRunning => state.isWaitingForInput)

\* A RUN that went through a subroutine to END inside the call.
HaltsOrWaitsWitness ==
    /\ call = "idle"
    /\ lastCall.fn = "processLine" /\ lastCall.line = StRun(NoArg)
    /\ runProgram = GosubProgram
    /\ Len(trace) = 5 /\ trace[Len(trace)].op = "END"
    /\ ~state.isRunning /\ ~state.isWaitingForInput

\* C23: an ON e GOTO/GOSUB l1,...,ln executed in a run, i the value of e
\* rounded to the nearest integer (halves up): if 1 <= i <= n the step is the
\* one GOTO li or GOSUB li would make in its place (for a line li that exists,
\* GOSUB pushes the line of the ON and both continue at li); otherwise no
\* error is raised, gosubStack and the variables are unchanged and execution
\* goes on at the next line.
OnStatement == EffectiveStatement(state, state.program[state.pc])

ExecutesOn == Executes /\ OnStatement.op = "ON"

Nearest(v) ==
    CASE v.t = "num" -> v.n
      [] v.t = "half" -> v.n + 1
      [] OTHER -> 0

OnIndex == Nearest(evaluateExpression(state, OnStatement.e).val)

OnLine == OnStatement.lines[OnIndex]

InPlace(code) ==
    IF OnStatement.kind = "GOSUB" THEN StGosub(Num(OnLine)) ELSE StGoto(Num(OnLine))

StepOf(r) ==
    /\ state' = [r.w.st EXCEPT !.program = state.program]
    /\ call' = IF r.inLoop THEN "run" ELSE "idle"

OnDispatches ==
    [][ExecutesOn =>
          IF OnIndex \in 1..Len(OnStatement.lines)
          THEN /\ StepOf(executeRunIteration(
                             World([state EXCEPT !.program[state.pc] = InPlace(OnStatement)],
                                   localStorage)))
               /\ (OnLine \in DOMAIN state.program /\ 0 \notin DOMAIN state.program) =>
                      /\ trace'[Len(trace')].error = NoError
                      /\ state'.pc = OnLine
                      /\ state'.gosubStack =
                             IF OnStatement.kind = "GOSUB"
                             THEN Append(state.gosubStack, state.pc)
                             ELSE state.gosubStack
          ELSE /\ trace'[Len(trace')].error = NoError
               /\ state'.gosubStack = state.gosubStack
               /\ state'.variables = state.variables
               /\ state'.pc = findNextLine(state.program, state.pc)]_vars

\* ON 0.5 GOSUB 40,99 has called line 40 from line 10.
OnDispatchesWitness ==
    /\ call = "run"
    /\ runProgram = OnProgram(Half(0), "GOSUB")
    /\ Len(trace) = 1 /\ trace[1].op = "ON" /\ trace[1].error = NoError
    /\ state.gosubStack = <<10>>
    /\ state.pc = 40

\* C24: a POKE a,v executed with whole numbers a and v: if 0 <= a < 65536 it
\* raises no error, memory[a] becomes v mod 256, a value in 0..255, and every
\* other cell keeps its value; otherwise it fails with
\* "?ILLEGAL QUANTITY ERROR" and memory is unchanged.  A PEEK(a) printed with
\* 0 <= a < 65536 prints the value the cell holds (0 if never written).
Cell(memory, a) == IF a \in DOMAIN memory THEN memory[a] ELSE 0

Poked == state.program[state.pc]

ExecutesPoke ==
    /\ Executes
    /\ Poked.op = "POKE" /\ Poked.addr.k = "num" /\ Poked.val.k = "num"

Residue(v) == CHOOSE r \in 0..255 : \E q \in (0 - 2)..2 : v = 256 * q + r

ExecutesPeek ==
    /\ Executes
    /\ IsPeek(state.program[state.pc])
    /\ ~PeekOutside

Printed == state'.output[IF state.output = <<>> THEN 1 ELSE Len(state.output)]

CursorInPool ==
    /\ 0 <= state.dataPointer
    /\ state.dataPointer <= Len(state.data)

\* A READ failed with out of data after the whole pool of three was read.
CursorInPoolWitness ==
    /\ trace # <<>>
    /\ trace[Len(trace)].op = "READ"
    /\ trace[Len(trace)].error = "?OUT OF DATA ERROR"
    /\ Len(state.data) = 3 /\ state.dataPointer = 3

\* C26: a LOAD "m", typed or executed in a run, where a SAVE under the same
\* name up to letter case came before: if no KILL of the name came since the
\* last such SAVE, the LOAD succeeds and the Program Store becomes what it was
\* at that SAVE, whatever was edited since; if a KILL came since, the LOAD
\* fails with "?FILE NOT FOUND" and the Program Store is unchanged.
LoadTyped(name) ==
    /\ Calls(StLoad(Quoted(name)))
    /\ ~state.isAutoMode
    /\ toUpperCase(name) \in DOMAIN saved

LoadExecuted ==
    /\ Executes
    /\ EffectiveStatement(state, state.program[state.pc]).op = "LOAD"
    /\ EffectiveStatement(state, state.program[state.pc]).arg.quoted
    /\ toUpperCase(EffectiveStatement(state, state.program[state.pc]).arg.name) \in DOMAIN saved

Restores(file, failure) ==
    IF file.kept
    THEN failure = "" /\ state'.program = file.program
    ELSE failure = "?FILE NOT FOUND" /\ state'.program = state.program

LoadRestoresSaved ==
    [][/\ \A name \in {"a", "A"} : LoadTyped(name) => Restores(saved[toUpperCase(name)], thrown')
       /\ LoadExecuted =>
             Restores(saved[toUpperCase(EffectiveStatement(state, state.program[state.pc]).arg.name)],
                      trace'[Len(trace')].error)]_vars

\* LOAD "A" brought back line 10 of a program saved as "a", after line 10 had
\* been deleted.
LoadRestoresSavedWitness ==
    /\ lastCall.fn = "processLine" /\ lastCall.line = StLoad(Quoted("A"))
    /\ thrown = ""
    /\ "A" \in DOMAIN saved /\ saved["A"].kept
    /\ state.program = saved["A"].program
    /\ 10 \in DOMAIN state.program /\ edits[10] = Blank

\* LOAD "a" failed after KILL "a" removed what SAVE "a" had stored.
LoadAfterKillWitness ==
    /\ lastCall.fn = "processLine" /\ lastCall.line = StLoad(Quoted("a"))
    /\ thrown = "?FILE NOT FOUND"
    /\ "A" \in DOMAIN saved /\ ~saved["A"].kept
    /\ "msbasic_A" \notin DOMAIN localStorage

\* C27: two cold RUNs of the same program that end with no value supplied
\* leave the same output lines, whatever was executed before each of them:
\* a run of the program of the first such run ends with the output of that run.
RunEnds ==
    /\ call = "run" /\ call' = "idle"
    /\ lastCall.fn = "processLine"

\* Whether a statement of program p reads or writes the file store, which
\* outlives the runs as the files of a machine do.
Consequent(code) == IF code.op = "IF" THEN code.th ELSE code

UsesFiles(p) ==
    \E ln \in DOMAIN p : Consequent(p[ln]).op \in {"SAVE", "LOAD", "KILL", "FILES", "RUN"}

RunsRepeat ==
    [][(RunEnds /\ firstRun.done /\ runProgram = firstRun.program
                /\ ~UsesFiles(runProgram)) =>
           state'.output = firstRun.output]_vars

\* C30: a GOSUB or ON ... GOSUB executed in a run that fails because its
\* target line does not exist leaves gosubStack as it was.
IsGosub(code) ==
    \/ code.op = "GOSUB"
    \/ code.op = "ON" /\ code.kind = "GOSUB"

LineNotFound == {"?LINE NOT FOUND: " \o ToString(ln) : ln \in 0..200}

GosubFails ==
    /\ Executes
    /\ IsGosub(EffectiveStatement(state, state.program[state.pc]))
    /\ trace'[Len(trace')].error \in LineNotFound

FailedGosubKeepsStack ==
    [][GosubFails => state'.gosubStack = state.gosubStack]_vars

\* C29: loopStack never holds two entries for the same loop variable, even
\* when a loop body is left by GOTO and the FOR is executed again.
OneEntryPerVariable ==
    \A i, j \in 1..Len(state.loopStack) :
        state.loopStack[i].variable = state.loopStack[j].variable => i = j

\* C28: when a value is supplied to an INPUT V that was typed as an immediate
\* command while no program was running, V holds the parsed value after the
\* call and the run loop has not been entered: no line of the stored program
\* is executed and the program is as it was.
SuppliesDirect ==
    /\ call = "idle"
    /\ lastCall.fn = "processLine" /\ lastCall.line.op = "INPUT"
    /\ state.isWaitingForInput /\ ~state.isRunning
    /\ lastCall'.fn = "provideInput"

Parsed(value) == IF parseFloat(value) = NaN THEN NumV(0) ELSE parseFloat(value)

DirectInputStores ==
    [][SuppliesDirect =>
          /\ call' = "idle"
          /\ state'.program = state.program
          /\ toUpperCase(lastCall.line.v) \in DOMAIN state'.variables
          /\ state'.variables[toUpperCase(lastCall.line.v)] = Parsed(lastCall'.value)]_vars

====
